---- MODULE Spec2Model ----
(***************************************************************************)
(* Model of plasmatools.shot_length (src/plasmatools.py).                  *)
(*                                                                         *)
(* One call of shot_length is modelled: the try block that resolves the Ip *)
(* node and reads its data and time base (lines 46-61), step by step, each *)
(* MDSplus call being able to raise, and the detection on the two arrays   *)
(* (lines 63-86).  Arrays are sequences; Python's slices, boolean-mask     *)
(* indexing, concatenate, elementwise arithmetic with broadcasting and     *)
(* nonzero are operators that compute what numpy computes.                 *)
(*                                                                         *)
(* Currents are integers in units of 20 kA (so 1.2e5 A is 6, 1e5 A is 5,   *)
(* 2e5 A is 10) and times are integers; the arithmetic is exact, so the    *)
(* rounding, underflow and NaN behaviour of IEEE doubles is outside the    *)
(* model.  The time base and the data have equal length (the function's    *)
(* precondition on the MDSplus node).                                      *)
(***************************************************************************)
EXTENDS Integers, Sequences, FiniteSets

VARIABLES
    pc,               \* position in shot_length
    threshold,        \* the `threshold` argument
    bound,            \* the locals among n, Ip, t that are bound so far
    Ip,               \* local Ip (rebound at line 65)
    t,                \* local t (rebound at line 66)
    mask,             \* local mask
    delta_prod_mask,  \* local delta_prod_mask
    delta_1_mask,     \* local delta_1_mask
    delta_8_mask,     \* local delta_8_mask
    cond_met,         \* local cond_met (0-based indices)
    warnings,         \* number of warnings.warn calls made
    result,           \* <<>> until the function returns, then <<value>>
    raised            \* "none", or the exception that left the function

vars == <<pc, threshold, bound, Ip, t, mask,
          delta_prod_mask, delta_1_mask, delta_8_mask, cond_met,
          warnings, result, raised>>

detectVars == <<mask, delta_prod_mask, delta_1_mask, delta_8_mask, cond_met>>

----------------------------------------------------------------------------
(* Bounds of the inputs *)

\* longest array the node returns
MaxLen == 11
\* a signal is piecewise constant with at most this many pieces
MaxRuns == 3
\* the time base starts at -MaxNeg or later
MaxNeg == 2

\* current levels, units of 20 kA
CurVals == {5, 8, 10}
\* thresholds, same units; 6 is the default 1.2e5.  With 6 two levels lie
\* above the threshold, with 9 two lie below it, with 8 one level equals it
Thresholds == {6, 8, 9}
\* first time of the time base (unit sampling step)
TimeStarts == (0 - MaxNeg)..1

NRuns(s) ==
    IF Len(s) = 0 THEN 0
    ELSE 1 + Cardinality({i \in 2..Len(s) : s[i] # s[i-1]})

RECURSIVE SignalsOfLen(_)
SignalsOfLen(l) ==
    IF l = 0 THEN {<<>>}
    ELSE {s \in {Append(p, v) : p \in SignalsOfLen(l-1), v \in CurVals} :
             NRuns(s) <= MaxRuns}

Signals == UNION {SignalsOfLen(l) : l \in 0..MaxLen}

----------------------------------------------------------------------------
(* numpy on sequences *)

Abs(x) == IF x < 0 THEN 0 - x ELSE x

absolute(a) == [i \in 1..Len(a) |-> Abs(a[i])]

Min(a, b) == IF a < b THEN a ELSE b
Max(a, b) == IF a > b THEN a ELSE b

\* Python's normalisation of a slice bound k for a sequence of length len
SliceIndex(k, len) == IF k < 0 THEN Max(k + len, 0) ELSE Min(k, len)

\* a[k:]
SliceFrom(a, k) == SubSeq(a, SliceIndex(k, Len(a)) + 1, Len(a))

\* a[:k]
SliceTo(a, k) == SubSeq(a, 1, SliceIndex(k, Len(a)))

\* a[m] for a boolean array m of a's length
RECURSIVE BoolIndex(_, _)
BoolIndex(a, m) ==
    IF a = <<>> THEN <<>>
    ELSE (IF Head(m) THEN <<Head(a)>> ELSE <<>>) \o BoolIndex(Tail(a), Tail(m))

\* numpy broadcasting of two 1-d arrays
Conformable(a, b) == Len(a) = Len(b) \/ Len(a) = 1 \/ Len(b) = 1
BLen(a, b) == IF Len(a) = 1 THEN Len(b) ELSE Len(a)
Elem(a, i) == IF Len(a) = 1 THEN a[1] ELSE a[i]

Sub(a, b) == [i \in 1..BLen(a, b) |-> Elem(a, i) - Elem(b, i)]
Mul(a, b) == [i \in 1..BLen(a, b) |-> Elem(a, i) * Elem(b, i)]
And(a, b) == [i \in 1..BLen(a, b) |-> Elem(a, i) /\ Elem(b, i)]
SubScalar(a, c) == [i \in 1..Len(a) |-> a[i] - c]
LeqScalar(a, c) == [i \in 1..Len(a) |-> a[i] <= c]
GeqScalar(a, c) == [i \in 1..Len(a) |-> a[i] >= c]

concatenate(a, b) == a \o b

\* 0-based indices of the true entries, ascending
RECURSIVE nonzeroFrom(_, _)
nonzeroFrom(m, i) ==
    IF i > Len(m) THEN <<>>
    ELSE (IF m[i] THEN <<i - 1>> ELSE <<>>) \o nonzeroFrom(m, i + 1)

nonzero(m) == nonzeroFrom(m, 1)

----------------------------------------------------------------------------
(* The detection, lines 63-86 *)

\* the lookahead of delta_8_mask
Lookahead == 8

\* the comparison lets the sample one step before the shot through
TimeMask_early(tt) == GeqScalar(tt, -1)

\* line 64
TimeMask(tt) == GeqScalar(tt, 0)

\* the crossing test with a strict comparison
DeltaProdMask_strict(I, T) ==
    concatenate(
        [i \in 1..Len(SliceTo(I, -1)) |-> (I[i] - T) * (I[i + 1] - T) < 0],
        LeqScalar(SliceFrom(I, -1), T))

\* lines 68-71
DeltaProdMask(I, T) ==
    concatenate(
        LeqScalar(Mul(SubScalar(SliceTo(I, -1), T), SubScalar(SliceFrom(I, 1), T)), 0),
        LeqScalar(SliceFrom(I, -1), T))

\* the difference taken the other way round
Delta1Mask_reversed(I, T) ==
    concatenate(
        LeqScalar(Sub(SliceTo(I, -1), SliceFrom(I, 1)), 0),
        LeqScalar(SliceFrom(I, -1), T))

\* lines 73-76
Delta1Mask(I, T) ==
    concatenate(
        LeqScalar(Sub(SliceFrom(I, 1), SliceTo(I, -1)), 0),
        LeqScalar(SliceFrom(I, -1), T))

\* the 8-step difference with a strict comparison
Delta8Mask_strict(I, T) ==
    concatenate(
        [i \in 1..Len(SliceFrom(I, Lookahead)) |-> I[i + Lookahead] - I[i] < 0],
        LeqScalar(SliceFrom(I, 0 - Lookahead), T))

\* the trailing entries with a strict comparison
Delta8Mask_trailstrict(I, T) ==
    concatenate(
        LeqScalar(Sub(SliceFrom(I, Lookahead), SliceTo(I, 0 - Lookahead)), 0),
        [i \in 1..Len(SliceFrom(I, 0 - Lookahead)) |->
            SliceFrom(I, 0 - Lookahead)[i] < T])

\* the trailing entries taken from Ip[-7:]
Delta8Mask_short(I, T) ==
    concatenate(
        LeqScalar(Sub(SliceFrom(I, Lookahead), SliceTo(I, 0 - Lookahead)), 0),
        LeqScalar(SliceFrom(I, 1 - Lookahead), T))

\* lines 77-80
Delta8Mask(I, T) ==
    concatenate(
        LeqScalar(Sub(SliceFrom(I, Lookahead), SliceTo(I, 0 - Lookahead)), 0),
        LeqScalar(SliceFrom(I, 0 - Lookahead), T))

\* the operands of every elementwise operation have conformable shapes
ShapesOK(I, T) ==
    /\ Conformable(SliceTo(I, -1), SliceFrom(I, 1))
    /\ Conformable(SliceFrom(I, Lookahead), SliceTo(I, 0 - Lookahead))
    /\ Conformable(DeltaProdMask(I, T), Delta1Mask(I, T))
    /\ Conformable(And(DeltaProdMask(I, T), Delta1Mask(I, T)), Delta8Mask(I, T))

\* the conjunction without the crossing test
CondMet_nocross(I, T) ==
    nonzero(And(Delta1Mask(I, T), Delta8Mask(I, T)))

\* line 82
CondMet(I, T) ==
    nonzero(And(And(DeltaProdMask(I, T), Delta1Mask(I, T)), Delta8Mask(I, T)))

\* the index is returned instead of its time
Returned_index(tt, cm) == IF Len(cm) = 0 THEN 0 ELSE cm[1]

\* a single hit is taken for none
Returned_single(tt, cm) == IF Len(cm) <= 1 THEN 0 ELSE tt[cm[1] + 1]

\* the value returned at lines 83-86
Returned(tt, cm) == IF Len(cm) = 0 THEN 0 ELSE tt[cm[1] + 1]

----------------------------------------------------------------------------
(* The call *)

Init ==
    /\ pc = "start"
    /\ threshold \in Thresholds
    /\ bound = {}
    /\ Ip = <<>>
    /\ t = <<>>
    /\ mask = <<>>
    /\ delta_prod_mask = <<>>
    /\ delta_1_mask = <<>>
    /\ delta_8_mask = <<>>
    /\ cond_met = <<>>
    /\ warnings = 0
    /\ result = <<>>
    /\ raised = "none"

\* line 47: isinstance(tree, MDSplus.Tree), for either kind of `tree` argument
IsInstance ==
    /\ pc = "start"
    /\ \E tree \in {"Tree", "str"} :
          pc' = IF tree = "Tree" THEN "getDefault" ELSE "openTree"
    /\ UNCHANGED <<threshold, bound, Ip, t, detectVars, warnings, result, raised>>

\* line 48: d = str(tree.getDefault())
GetDefault ==
    /\ pc = "getDefault"
    /\ \E ok \in BOOLEAN : pc' = IF ok THEN "getNodeFirst" ELSE "except"
    /\ UNCHANGED <<threshold, bound, Ip, t, detectVars, warnings, result, raised>>

\* lines 49-51: n = tree.getNode(d[:-3] + "Ip"); a failure goes to the inner except
GetNodeFirst ==
    /\ pc = "getNodeFirst"
    /\ \E ok \in BOOLEAN :
          IF ok THEN bound' = bound \cup {"n"} /\ pc' = "data"
          ELSE bound' = bound /\ pc' = "getNodeFallback"
    /\ UNCHANGED <<threshold, Ip, t, detectVars, warnings, result, raised>>

\* the fallback lookup outside the outer try: its failure leaves the function
GetNodeFallback_propagates ==
    /\ pc = "getNodeFallback"
    /\ \E ok \in BOOLEAN :
          IF ok THEN bound' = bound \cup {"n"} /\ pc' = "data" /\ raised' = raised
          ELSE bound' = bound /\ pc' = "raised" /\ raised' = "Exception"
    /\ UNCHANGED <<threshold, Ip, t, detectVars, warnings, result>>

\* line 52: n = tree.getNode(d + "::Ip"); a failure goes to the outer except
GetNodeFallback ==
    /\ pc = "getNodeFallback"
    /\ \E ok \in BOOLEAN :
          IF ok THEN bound' = bound \cup {"n"} /\ pc' = "data"
          ELSE bound' = bound /\ pc' = "except"
    /\ UNCHANGED <<threshold, Ip, t, detectVars, warnings, result, raised>>

\* line 54: tr = MDSplus.Tree(tree, shot)
OpenTree ==
    /\ pc = "openTree"
    /\ \E ok \in BOOLEAN : pc' = IF ok THEN "getNodeNamed" ELSE "except"
    /\ UNCHANGED <<threshold, bound, Ip, t, detectVars, warnings, result, raised>>

\* line 55: n = tr.getNode("\\" + tree + "::Ip")
GetNodeNamed ==
    /\ pc = "getNodeNamed"
    /\ \E ok \in BOOLEAN :
          IF ok THEN bound' = bound \cup {"n"} /\ pc' = "data"
          ELSE bound' = bound /\ pc' = "except"
    /\ UNCHANGED <<threshold, Ip, t, detectVars, warnings, result, raised>>

\* line 56: Ip = scipy.absolute(scipy.asarray(n.data(), dtype=float));
\* the node holds a signal of either polarity
Data ==
    /\ pc = "data"
    /\ \/ /\ pc' = "except"
          /\ UNCHANGED <<bound, Ip>>
       \/ \E s \in Signals, sgn \in {1, -1} :
             /\ Ip' = absolute([i \in 1..Len(s) |-> sgn * s[i]])
             /\ bound' = bound \cup {"Ip"}
             /\ pc' = "dim_of"
    /\ UNCHANGED <<threshold, t, detectVars, warnings, result, raised>>

\* line 57: t = scipy.asarray(n.dim_of().data(), dtype=float);
\* the time base has the data's length and a unit step
DimOf ==
    /\ pc = "dim_of"
    /\ \/ /\ pc' = "except"
          /\ UNCHANGED <<bound, t>>
       \/ \E start \in TimeStarts :
             /\ t' = [i \in 1..Len(Ip) |-> start + i - 1]
             /\ bound' = bound \cup {"t"}
             /\ pc' = "detect"
    /\ UNCHANGED <<threshold, Ip, detectVars, warnings, result, raised>>

\* lines 58-61: the outer except warns and returns 0.0
Except ==
    /\ pc = "except"
    /\ warnings' = warnings + 1
    /\ result' = <<0>>
    /\ pc' = "done"
    /\ UNCHANGED <<threshold, bound, Ip, t, detectVars, raised>>

\* lines 63-86: mask, the three indicator arrays, the search and the return;
\* an elementwise operation on arrays that do not broadcast raises ValueError
Detect ==
    /\ pc = "detect"
    /\ mask' = TimeMask(t)
    /\ Ip' = BoolIndex(Ip, mask')
    /\ t' = BoolIndex(t, mask')
    /\ IF ShapesOK(Ip', threshold)
       THEN /\ delta_prod_mask' = DeltaProdMask(Ip', threshold)
            /\ delta_1_mask' = Delta1Mask(Ip', threshold)
            /\ delta_8_mask' = Delta8Mask(Ip', threshold)
            /\ cond_met' = CondMet(Ip', threshold)
            /\ IF Len(cond_met') > 0 /\ cond_met'[1] + 1 > Len(t')
               THEN pc' = "raised" /\ raised' = "IndexError" /\ result' = result
               ELSE pc' = "done" /\ raised' = raised
                    /\ result' = <<Returned(t', cond_met')>>
       ELSE /\ pc' = "raised"
            /\ raised' = "ValueError"
            /\ UNCHANGED <<delta_prod_mask, delta_1_mask, delta_8_mask,
                           cond_met, result>>
    /\ UNCHANGED <<threshold, bound, warnings>>

Next ==
    \/ IsInstance
    \/ GetDefault
    \/ GetNodeFirst
    \/ GetNodeFallback
    \/ OpenTree
    \/ GetNodeNamed
    \/ Data
    \/ DimOf
    \/ Except
    \/ Detect

Spec == Init /\ [][Next]_vars

----------------------------------------------------------------------------
(* Properties.  After Detect, Ip and t are the filtered arrays (lines      *)
(* 65-66) and mask keeps the length of the arrays as they were read.       *)
(* Indices below are 1-based: sample i of the text (0-based) is Ip[i+1].   *)

\* the call is over
Ended == pc \in {"done", "raised"}

\* both arrays were obtained
Loaded == {"Ip", "t"} \subseteq bound

\* number of samples of the filtered signal
N == Len(Ip)

\* no sample was discarded: every time is >= 0
AllTimesKept == \A i \in 1..Len(mask) : mask[i]

\* the indicators as the text defines them, index by index
IndA(i) ==
    IF i < N THEN (Ip[i] - threshold) * (Ip[i + 1] - threshold) <= 0
    ELSE Ip[i] <= threshold

IndB(i) ==
    IF i < N THEN Ip[i + 1] - Ip[i] <= 0 ELSE Ip[i] <= threshold

IndC(i) ==
    IF i <= N - 8 THEN Ip[i + 8] - Ip[i] <= 0 ELSE Ip[i] <= threshold

Met(i) == IndA(i) /\ IndB(i) /\ IndC(i)

SomeMet == \E i \in 1..N : Met(i)

FirstMet == CHOOSE i \in 1..N : Met(i) /\ \A j \in 1..(i - 1) : ~Met(j)

\* ---- C1 ----

\* a non-increasing signal that starts above the threshold and ends at or below it
C1Case ==
    /\ Ended /\ Loaded /\ N >= 1 /\ AllTimesKept
    /\ \A i \in 1..(N - 1) : Ip[i + 1] <= Ip[i]
    /\ Ip[1] > threshold
    /\ Ip[N] <= threshold

FirstBelow == CHOOSE k \in 1..N : Ip[k] <= threshold /\ \A j \in 1..(k - 1) : Ip[j] > threshold

\* at or after k: the last sample, or a sample that equals the threshold or is
\* followed by one that does
Touches(i) == i = N \/ Ip[i] = threshold \/ Ip[i + 1] = threshold

FirstTouch == CHOOSE i \in FirstBelow..N : Touches(i) /\ \A j \in FirstBelow..(i - 1) : ~Touches(j)

\* C1 as stated: for a current that decreases monotonically from above the
\* threshold to at or below it, the call returns the time of the first sample
\* whose current is <= threshold, wherever that sample lies.
C1Original == C1Case => result = <<t[FirstBelow]>>

\* C1 amended: for such a current the call returns the time of the sample just
\* before the first sample <= threshold when at least 8 samples follow that
\* sample; otherwise it returns the time of the first sample, at or after the
\* first one <= threshold, that is the last sample of the record, equals the
\* threshold, or is followed by a sample equal to the threshold.
C1Amended ==
    C1Case =>
        /\ pc = "done"
        /\ result = <<t[IF FirstBelow - 1 <= N - 8 THEN FirstBelow - 1 ELSE FirstTouch]>>

\* the crossing lies within the last 8 samples of a long record and the call
\* returned the time of the last sample
C1Witness ==
    /\ C1Case /\ pc = "done"
    /\ N >= 10 /\ FirstBelow - 1 > N - 8 /\ FirstBelow < N
    /\ result = <<t[N]>>

\* ---- C2 ----

\* exactly one sample below the threshold, not the last one, all others above
IsDip(d) == Ip[d] < threshold /\ \A i \in 1..N : i # d => Ip[i] > threshold

C2Case == Ended /\ Loaded /\ N >= 2 /\ \E d \in 1..(N - 1) : IsDip(d)

Dip == CHOOSE d \in 1..(N - 1) : IsDip(d)

\* the sample before the dip has 8 samples after it and the current 8 samples
\* later is not above it
DipAccepted == Dip >= 2 /\ Dip - 1 <= N - 8 /\ Ip[Dip + 7] <= Ip[Dip - 1]

\* C2 as stated: a single-sample dip below the threshold in a current that is
\* otherwise above it is rejected, the call returns 0.0, also when the current
\* around the dip is flat.
C2Original == C2Case => result = <<0>>

\* C2 amended: the call returns 0.0 for a single-sample dip when the dip is the
\* first sample, or fewer than 8 samples follow the sample before the dip, or
\* the current 8 samples after the sample before the dip is strictly above that
\* sample; otherwise (a flat or falling current included) it returns the time
\* of the sample before the dip.
C2Amended ==
    C2Case =>
        /\ pc = "done"
        /\ result = IF DipAccepted THEN <<t[Dip - 1]>> ELSE <<0>>

\* a dip in a flat current was reported as the termination
C2Witness ==
    /\ C2Case /\ pc = "done" /\ DipAccepted
    /\ \A i \in 1..N : i # Dip => Ip[i] = Ip[1]
    /\ result = <<t[Dip - 1]>> /\ result # <<0>>

\* ---- C3 ----

\* the scenario after the call: time -1..9, of which -1 was discarded, current
\* 2e5 up to t = 1 and 1e5 from t = 2 on, threshold 1.2e5
C3Case ==
    /\ pc = "done" /\ Loaded
    /\ threshold = 6
    /\ mask = <<FALSE, TRUE, TRUE, TRUE, TRUE, TRUE, TRUE, TRUE, TRUE, TRUE, TRUE>>
    /\ t = <<0, 1, 2, 3, 4, 5, 6, 7, 8, 9>>
    /\ Ip = <<10, 10, 5, 5, 5, 5, 5, 5, 5, 5>>

\* C3 as stated: in the scenario the call returns 2.
C3Original == C3Case => result = <<2>>

\* C3 amended: in the scenario the call returns 1, the time of the last sample
\* above the threshold.
C3Amended == C3Case => result = <<1>>

\* the scenario was run
C3Witness == C3Case /\ result = <<1>> /\ cond_met[1] = 1

\* ---- C4 ----

\* C4: the call returns the time of the first index at which the three
\* indicators of the text all hold, and 0.0 when there is none; the filtered
\* signal has one sample per time >= 0.
C4Holds ==
    (Ended /\ Loaded) =>
        /\ pc = "done"
        /\ N = Cardinality({i \in 1..Len(mask) : mask[i]})
        /\ Len(t) = N
        /\ result = IF SomeMet THEN <<t[FirstMet]>> ELSE <<0>>

\* a short record (fewer than 8 samples) with a hit that is not its first sample
C4Witness ==
    /\ pc = "done" /\ Loaded /\ N >= 2 /\ N <= 8
    /\ SomeMet /\ FirstMet > 1 /\ FirstMet < N
    /\ result = <<t[FirstMet]>>

\* ---- C5 ----

\* C5: when the arrays could not be obtained the call returns 0.0 after exactly
\* one warning, no exception leaves it and no detection step has run.
C5Holds ==
    (Ended /\ ~Loaded) =>
        /\ pc = "done"
        /\ raised = "none"
        /\ result = <<0>>
        /\ warnings = 1
        /\ mask = <<>> /\ delta_prod_mask = <<>> /\ delta_1_mask = <<>>
        /\ delta_8_mask = <<>> /\ cond_met = <<>>

\* a step failed before the node was resolved and the call returned
C5Witness ==
    /\ pc = "done" /\ bound = {} /\ warnings = 1 /\ result = <<0>>

\* ---- C6 ----

\* the value of shot_length on the arrays tt, I
ShotLengthOf(tt, I, T) ==
    Returned(BoolIndex(tt, TimeMask(tt)), CondMet(BoolIndex(I, TimeMask(tt)), T))

\* the first j samples all have negative times
NegativePrefix(j) == \A i \in 1..j : t[i] < 0

\* C6: the call on a signal that begins with samples of negative time returns
\* what the call on the signal without those samples returns.
C6Holds ==
    [][(pc = "detect" /\ pc' # "detect") =>
          \A j \in 1..Len(t) :
              NegativePrefix(j) =>
                  /\ pc' = "done"
                  /\ result' = <<ShotLengthOf(SubSeq(t, j + 1, Len(t)),
                                             SubSeq(Ip, j + 1, Len(Ip)), threshold)>>]_vars

\* samples of negative time were discarded and a termination was found
C6Witness ==
    /\ pc = "done" /\ Loaded
    /\ Len(mask) > N /\ ~mask[1]
    /\ SomeMet /\ result = <<t[FirstMet]>>

\* ---- C7 ----

\* C7 as stated: a call in which some index satisfies the combined indicator
\* never returns 0.0.
C7Original == (Ended /\ Loaded /\ SomeMet) => result # <<0>>

\* C7 amended: when the call returns 0.0, the data could not be obtained, or no
\* index satisfies the combined indicator, or the first index that satisfies
\* it has time 0.0.
C7Amended ==
    (pc = "done" /\ result = <<0>>) =>
        \/ ~Loaded
        \/ ~SomeMet
        \/ t[FirstMet] = 0

\* 0.0 was returned as the time of a hit
C7Witness ==
    /\ pc = "done" /\ Loaded /\ SomeMet /\ t[FirstMet] = 0 /\ result = <<0>>
    /\ N >= 10

\* ---- C8 ----

\* every sample with time >= 0 is strictly above the threshold
C8Case == Ended /\ Loaded /\ \A i \in 1..N : Ip[i] > threshold

\* C8: a current that is strictly above the threshold at every time >= 0
\* gives 0.0.
C8Holds == C8Case => (pc = "done" /\ result = <<0>>)

\* a long record above the threshold, not flat, with discarded samples
C8Witness ==
    /\ C8Case /\ pc = "done" /\ N >= 9 /\ Len(mask) > N
    /\ \E i \in 1..(N - 1) : Ip[i + 1] < Ip[i]
    /\ result = <<0>>

\* ---- C9 ----

\* the positions of the last 8 samples
Last8 == {i \in 1..N : i > N - 8}

C9Case == Ended /\ Loaded /\ N >= 1 /\ \A i \in Last8 : Ip[i] <= threshold

\* C9 as stated: when the last 8 samples are all <= threshold, the single-step
\* and the 8-step indicator both hold at each of those positions.
C9Original ==
    C9Case => \A i \in Last8 : delta_1_mask[i] /\ delta_8_mask[i]

\* C9 amended: when the last 8 samples are all <= threshold, the 8-step
\* indicator holds at each of those positions and the single-step indicator
\* holds at the last one; at the other positions the single-step indicator is
\* the comparison of the sample with the next one.
C9Amended ==
    C9Case =>
        /\ pc = "done"
        /\ \A i \in Last8 : delta_8_mask[i]
        /\ delta_1_mask[N]
        /\ \A i \in Last8 : i < N => (delta_1_mask[i] <=> Ip[i + 1] <= Ip[i])

\* the current rises within the last 8 samples, all at or below the threshold
C9Witness ==
    /\ C9Case /\ pc = "done" /\ N >= 9
    /\ \E i \in Last8 : i < N /\ Ip[i + 1] > Ip[i] /\ ~delta_1_mask[i] /\ delta_8_mask[i]

\* ---- C10 ----

\* C10: once the arrays are obtained the call returns a value and raises
\* nothing; the three indicator arrays have one entry per filtered sample; an
\* empty filtered signal gives 0.0.
C10Holds ==
    (Ended /\ Loaded) =>
        /\ pc = "done"
        /\ raised = "none"
        /\ Len(result) = 1
        /\ Len(delta_prod_mask) = N
        /\ Len(delta_1_mask) = N
        /\ Len(delta_8_mask) = N
        /\ (N = 0 => result = <<0>>)

\* a non-empty record whose samples all have negative times
C10Witness ==
    /\ pc = "done" /\ Loaded /\ N = 0 /\ Len(mask) > 0 /\ result = <<0>>

====
